---- MODULE Spec2Model ----
(***************************************************************************)
(* UNFS3 filehandle core: fh.c (handle codec and resolver) and fh_cache.c  *)
(* (path cache with LRU stamps, statistics, cache-using wrappers), over a  *)
(* small model of the local file system the daemon exports.                *)
(*                                                                         *)
(* C strings are sequences of one-character strings, so that sprintf,      *)
(* strchr, "lead + 1" and strcmp are modelled by what they do.  A C local  *)
(* that is assigned once and read several times is the parameter of a      *)
(* local operator, applied once to the value assigned.                     *)
(***************************************************************************)
EXTENDS Integers, Sequences, FiniteSets, TLC

VARIABLES
    fs,              \* the exported file system: node (tuple of names) -> inode
    fh_cache,        \* fh_cache.c: static unfs3_cache_t fh_cache[CACHE_ENTRIES]
    fh_cache_max,    \* fh_cache.c: int fh_cache_max
    fh_cache_use,    \* fh_cache.c: int fh_cache_use
    fh_cache_hit,    \* fh_cache.c: int fh_cache_hit
    fh_cache_time,   \* fh_cache.c: static int fh_cache_time
    st_cache_valid,  \* fh.c: int st_cache_valid
    st_cache,        \* fh.c: struct stat st_cache
    new,             \* fh.c: static unfs3_fh_t new, the buffer of fh_extend
    left,            \* number of calls the run may still make
    muts,            \* number of changes made to the file system so far
    changed,         \* the paths renamed away, removed or replaced so far
    ret              \* the last call: its name, arguments and result

vars == <<fs, fh_cache, fh_cache_max, fh_cache_use, fh_cache_hit, fh_cache_time,
          st_cache_valid, st_cache, new, left, muts, changed, ret>>

(***************************************************************************)
(* Bounds of the model.  CACHE_ENTRIES is 4096 in fh_cache.c and FH_MAXLEN *)
(* comes from fh.h; both are scaled down so that a full cache and a path   *)
(* too deep for a handle are reached.                                      *)
(***************************************************************************)
CACHE_ENTRIES == 2

FH_MAXLEN == 2

\* calls of fh_comp, fh_decomp and fh_extend_type in one run
MaxCalls == 3

\* calls of fh_cache_init, fh_cache_add and fh_cache_lookup in one run
MaxCacheCalls == 4

\* calls of fh_comp and fh_decomp in one run on the tree that changes
MaxHealCalls == 4

\* renames, removals and replacements in the file system in one run
MaxMuts == 1

\* calls of fh_comp and fh_decomp in one run on the trees that change
MaxFrameCalls == 2

(***************************************************************************)
(* Constants of the program and of its platform.                           *)
(***************************************************************************)
\* fh.h: minimum length of a complete filehandle (the packed header)
FH_MINLEN == 13

\* sizeof the fields of the packed unfs3_fh_t: uint32 dev, ino, gen; uchar len
SizeofDev == 4

SizeofIno == 4

SizeofGen == 4

SizeofLen == 1

\* nfs.h: NFS_MAXPATHLEN
NFS_MAXPATHLEN == 1024

\* sys/stat.h: S_IFDIR 0040000, S_IFREG 0100000
S_IFDIR == 16384

S_IFREG == 32768

\* sys/stat.h: S_IFMT 0170000
S_IFMT == 61440

NULL == <<"(null)">>

(***************************************************************************)
(* C strings.                                                              *)
(***************************************************************************)
\* strlen
strlen(s) == Len(s)

\* sprintf(obj, "%s/%s", a, b)
sprintf_s_slash_s(a, b) == a \o <<"/">> \o b

\* strchr(s + from - 1, '/'): the first index >= from holding '/', 0 for NULL
RECURSIVE strchr_slash(_, _)
strchr_slash(s, from) ==
    IF from > Len(s) THEN 0
    ELSE IF s[from] = "/" THEN from
    ELSE strchr_slash(s, from + 1)

\* the components of a path: the runs between '/' characters
RECURSIVE Split(_)
Split(s) ==
    LET at(cut) ==
            IF cut = 0 THEN <<s>>
            ELSE <<SubSeq(s, 1, cut - 1)>> \o Split(SubSeq(s, cut + 1, Len(s)))
    IN  at(strchr_slash(s, 1))

(***************************************************************************)
(* The file system.  A node is the tuple of names leading to it, <<>> the  *)
(* root; fs maps each existing node to its inode: st_dev, st_ino, st_mode  *)
(* and whether lstat on the entry succeeds (an entry readdir lists may     *)
(* fail lstat: no search permission, or gone between readdir and lstat).   *)
(***************************************************************************)
Names == <<"a", "b", "c">>

Inode(dev, ino, mode) ==
    [st_dev |-> dev, st_ino |-> ino, st_mode |-> mode, lstat_ok |-> TRUE]

NoStat == [st_dev |-> 0, st_ino |-> 0, st_mode |-> 0, lstat_ok |-> FALSE]

RootInode == Inode(1, 2, S_IFDIR)

Parent(n) == IF n = <<>> THEN <<>> ELSE SubSeq(n, 1, Len(n) - 1)

IsSearchable(f, n) ==
    n \in DOMAIN f /\ f[n].lstat_ok /\ f[n].st_mode = S_IFDIR

\* kernel path walk from node cur over the components comps
RECURSIVE Walk(_, _, _)
Walk(f, comps, cur) ==
    IF comps = <<>> THEN [ok |-> cur \in DOMAIN f /\ f[cur].lstat_ok, node |-> cur]
    ELSE LET c == Head(comps) IN
         IF ~IsSearchable(f, cur) THEN [ok |-> FALSE, node |-> cur]
         ELSE IF c = <<>> \/ c = <<".">> THEN Walk(f, Tail(comps), cur)
         ELSE IF c = <<".", ".">> THEN Walk(f, Tail(comps), Parent(cur))
         ELSE IF Len(c) = 1 /\ Append(cur, c[1]) \in DOMAIN f
              THEN Walk(f, Tail(comps), Append(cur, c[1]))
         ELSE [ok |-> FALSE, node |-> cur]

\* lstat(path, &buf): res is 0 or -1, buf is filled on success only
lstat(f, path) ==
    IF path = <<>> \/ path[1] # "/" THEN [res |-> -1]
    ELSE LET walked(w) ==
                 IF ~w.ok THEN [res |-> -1]
                 ELSE [res |-> 0,
                       buf |-> [st_dev |-> f[w.node].st_dev,
                                st_ino |-> f[w.node].st_ino,
                                st_mode |-> f[w.node].st_mode]]
         IN  walked(Walk(f, Split(Tail(path)), <<>>))

\* opendir(lead)
opendir(f, lead) ==
    IF lead = <<>> \/ lead[1] # "/" THEN [ok |-> FALSE]
    ELSE LET walked(w) ==
                 IF w.ok /\ f[w.node].st_mode = S_IFDIR
                 THEN [ok |-> TRUE, node |-> w.node]
                 ELSE [ok |-> FALSE]
         IN  walked(Walk(f, Split(Tail(lead)), <<>>))

\* the d_name sequence readdir yields for an open directory
RECURSIVE ReadNames(_, _, _)
ReadNames(f, n, i) ==
    IF i > Len(Names) THEN <<>>
    ELSE (IF Append(n, Names[i]) \in DOMAIN f THEN <<<<Names[i]>>>> ELSE <<>>)
         \o ReadNames(f, n, i + 1)

readdir(f, n) == <<<<".">>, <<".", ".">>>> \o ReadNames(f, n, 1)

\* the absolute path string of a node
RECURSIVE PathOf(_)
PathOf(n) ==
    IF n = <<>> THEN <<"/">>
    ELSE IF Len(n) = 1 THEN <<"/", n[1]>>
    ELSE PathOf(Parent(n)) \o <<"/", n[Len(n)]>>

(***************************************************************************)
(* fh.c: handle codec.  A handle is [dev, ino, gen, len, inos], inos       *)
(* holding the len meaningful bytes of the trail; an nfs_fh3 is            *)
(* [data_len, data_val], the bytes a client sent and their count.          *)
(***************************************************************************)
\* 32-bit right shift and the 8-bit mask of FH_HASH
Shr(n, k) == n \div (2 ^ k)

FH_HASH(n) == (n + 3 * Shr(n, 8) + 5 * Shr(n, 16)) % 256

\* a & b on naturals
RECURSIVE BitAnd(_, _)
BitAnd(a, b) ==
    IF a = 0 \/ b = 0 THEN 0
    ELSE (a % 2) * (b % 2) + 2 * BitAnd(a \div 2, b \div 2)

S_ISDIR(mode) == BitAnd(mode, S_IFMT) = S_IFDIR

\* get_gen(obuf, FD_NONE, path) in the build with neither st_gen nor the ext2
\* ioctl (HAVE_STRUCT_STAT_ST_GEN == 0 && HAVE_LINUX_EXT2_FS_H == 0)
get_gen(obuf) == obuf.st_ino

fh_len(fh) == fh.len + SizeofLen + SizeofDev + SizeofIno + SizeofGen

nfh_valid_nolen(nfh) == nfh.data_len >= FH_MINLEN

nfh_valid(nfh) ==
    IF nfh.data_len < FH_MINLEN THEN FALSE
    ELSE IF nfh.data_len # fh_len(nfh.data_val) THEN FALSE
    ELSE TRUE

fh_valid_or(fh) == fh.dev # 0 \/ fh.ino # 0

fh_valid(fh) == fh.dev # 0 /\ fh.ino # 0

invalid_fh == [dev |-> 0, ino |-> 0, gen |-> 0, len |-> 0, inos |-> <<>>]

\* the handle as the nfs_fh3 a caller sends back: data_len = fh_len(fh)
Wire(fh) == [data_len |-> fh_len(fh), data_val |-> fh]

\* a loop that stores the hashes of the ancestor directories only
RECURSIVE comp_loop_ancestors(_, _, _, _)
comp_loop_ancestors(f, work, last, inos) ==
    LET stored(nxt, inos2) ==
            IF nxt # 0 /\ Len(inos2) < FH_MAXLEN
            THEN comp_loop_ancestors(f, work, nxt, inos2)
            ELSE IF nxt # 0 THEN [ok |-> FALSE, inos |-> inos2]
            ELSE [ok |-> TRUE, inos |-> inos2]
        statted(nxt, st) ==
            IF st.res = -1 THEN [ok |-> FALSE, inos |-> inos]
            ELSE stored(nxt, IF nxt # 0 THEN Append(inos, FH_HASH(st.buf.st_ino))
                             ELSE inos)
        cut(nxt) ==
            statted(nxt, lstat(f, IF nxt # 0 THEN SubSeq(work, 1, nxt - 1)
                                  ELSE work))
    IN  cut(strchr_slash(work, last + 1))

\* the do-while loop of fh_comp_raw; last is the index of the '/' that starts
\* the component being added (C's last - work + 1), inos the bytes stored so far
RECURSIVE comp_loop(_, _, _, _)
comp_loop(f, work, last, inos) ==
    LET stored(nxt, inos2) ==
            IF nxt # 0 /\ Len(inos2) < FH_MAXLEN
            THEN comp_loop(f, work, nxt, inos2)
            ELSE IF nxt # 0 THEN [ok |-> FALSE, inos |-> inos2]
            ELSE [ok |-> TRUE, inos |-> inos2]
        statted(nxt, st) ==
            IF st.res = -1 THEN [ok |-> FALSE, inos |-> inos]
            ELSE stored(nxt, Append(inos, FH_HASH(st.buf.st_ino)))
        cut(nxt) ==
            statted(nxt, lstat(f, IF nxt # 0 THEN SubSeq(work, 1, nxt - 1)
                                  ELSE work))
    IN  cut(strchr_slash(work, last + 1))

\* what fh_comp_raw returns for the root: len and inos were never assigned
comp_root(dev, ino, gen, junk) ==
    [dev |-> dev, ino |-> ino, gen |-> gen, len |-> junk.len, inos |-> junk.inos]

\* fh_comp_raw(path, need_dir); junk is the content of the unassigned local fh
fh_comp_raw(f, path, need_dir, junk) ==
    LET looped(st, lp) ==
            IF ~lp.ok THEN invalid_fh
            ELSE [dev |-> st.buf.st_dev, ino |-> st.buf.st_ino,
                  gen |-> get_gen(st.buf), len |-> Len(lp.inos), inos |-> lp.inos]
        statted(st) ==
            IF st.res = -1 THEN invalid_fh
            ELSE IF need_dir # 0 /\ ~S_ISDIR(st.buf.st_mode) THEN invalid_fh
            ELSE IF path = <<"/">>
                 THEN comp_root(st.buf.st_dev, st.buf.st_ino, get_gen(st.buf), junk)
            ELSE looped(st, comp_loop(f, [path EXCEPT ![1] = "/"], 1, <<>>))
    IN  statted(lstat(f, path))

\* memcpy(&new, fh, fh_len(fh)): the header and the len trail bytes of fh land
\* in the static buffer, whose later bytes stay as they were
extend_memcpy(nw, fh) ==
    LET n == IF Len(nw.inos) > fh.len THEN Len(nw.inos) ELSE fh.len IN
    [dev |-> fh.dev, ino |-> fh.ino, gen |-> fh.gen, len |-> fh.len,
     inos |-> [i \in 1..n |-> IF i <= fh.len THEN fh.inos[i] ELSE nw.inos[i]]]

\* new.inos[new.len] = b, growing the model's buffer when new.len is past it
extend_store(nw, b) ==
    [nw EXCEPT !.inos = IF nw.len + 1 <= Len(nw.inos)
                        THEN [nw.inos EXCEPT ![nw.len + 1] = b]
                        ELSE Append(nw.inos, b)]

extend_parent_hash(nw, nfh, dev, ino, gen) ==
    LET fh == nfh.data_val IN
    IF fh.len = FH_MAXLEN THEN [ok |-> FALSE, new |-> nw]
    ELSE [ok |-> TRUE,
          new |-> [extend_store([extend_memcpy(nw, fh) EXCEPT
                                   !.dev = dev, !.ino = ino, !.gen = gen],
                                FH_HASH(fh.ino))
                   EXCEPT !.len = (@ + 1) % 256]]

\* fh_extend(nfh, dev, ino, gen) on the static buffer nw: NULL (ok = FALSE) or
\* the buffer as it is returned
fh_extend(nw, nfh, dev, ino, gen) ==
    LET fh == nfh.data_val IN
    IF fh.len = FH_MAXLEN THEN [ok |-> FALSE, new |-> nw]
    ELSE [ok |-> TRUE,
          new |-> [extend_store([extend_memcpy(nw, fh) EXCEPT
                                   !.dev = dev, !.ino = ino, !.gen = gen],
                                FH_HASH(ino))
                   EXCEPT !.len = (@ + 1) % 256]]

\* the handle a caller reads out of the returned buffer: fh_len(new) bytes
HandleOf(nw) ==
    [dev |-> nw.dev, ino |-> nw.ino, gen |-> nw.gen, len |-> nw.len,
     inos |-> SubSeq(nw.inos, 1, nw.len)]

\* fh_extend_post(fh, dev, ino, gen)
fh_extend_post(nw, nfh, dev, ino, gen) ==
    LET extended(e) ==
            IF e.ok
            THEN [handle_follows |-> TRUE, new |-> e.new,
                  handle |-> [data_len |-> fh_len(e.new),
                              data_val |-> HandleOf(e.new)]]
            ELSE [handle_follows |-> FALSE, new |-> e.new,
                  handle |-> [data_len |-> 0, data_val |-> invalid_fh]]
    IN  extended(fh_extend(nw, nfh, dev, ino, gen))

\* fh_extend_type(fh, path, type): the reply, the static buffer and the stat
\* cache (valid, buf) it leaves; stb is the stat cache's buffer on entry
fh_extend_type(f, nw, stb, nfh, path, type) ==
    LET statted(st) ==
            IF st.res = -1 \/ BitAnd(st.buf.st_mode, type) # type
            THEN [post |-> [handle_follows |-> FALSE, new |-> nw,
                            handle |-> [data_len |-> 0, data_val |-> invalid_fh]],
                  st_cache_valid |-> FALSE, st_cache |-> stb]
            ELSE [post |-> fh_extend_post(nw, nfh, st.buf.st_dev, st.buf.st_ino,
                                          get_gen(st.buf)),
                  st_cache_valid |-> TRUE, st_cache |-> st.buf]
    IN  statted(lstat(f, path))

(***************************************************************************)
(* fh.c: resolver.                                                         *)
(***************************************************************************)
\* lstat(obj, &buf) of fh_rec: on failure dev and ino are zeroed and the other
\* fields of the local buf keep what they held (old)
rec_stat(f, obj, old) ==
    LET statted(st) ==
            IF st.res = -1 THEN [old EXCEPT !.st_dev = 0, !.st_ino = 0]
            ELSE st.buf
    IN  statted(lstat(f, obj))

\* what one run of fh_rec did: calls of fh_rec, the largest pos of a call,
\* recursive calls made through the entries "." and "..", and the successful
\* opendir and the closedir calls
Trace(calls, deep, dots, opened, closed) ==
    [calls |-> calls, deep |-> deep, dots |-> dots,
     opened |-> opened, closed |-> closed]

Max(a, b) == IF a >= b THEN a ELSE b

Join(s, t) ==
    Trace(s.calls + t.calls, Max(s.deep, t.deep), s.dots + t.dots,
          s.opened + t.opened, s.closed + t.closed)

\* a resolver that tries every entry whose hash matches, "." and ".." included
rec_descend_dots(d_name, buf, fh, pos) == FH_HASH(buf.st_ino) = fh.inos[pos + 1]

rec_found_ino_only(buf, fh) == buf.st_ino = fh.ino

\* found the object
rec_found(buf, fh) == buf.st_dev = fh.dev /\ buf.st_ino = fh.ino

\* might be the directory we're looking for
rec_descend(d_name, buf, fh, pos) ==
    /\ d_name # <<".", ".">>
    /\ d_name # <<".">>
    /\ FH_HASH(buf.st_ino) = fh.inos[pos + 1]

\* sprintf(result, "%s/%s", lead + 1, entry->d_name)
rec_result(lead, d_name) == sprintf_s_slash_s(Tail(lead), d_name)

\* fh_rec(fh, pos, lead, result) and its readdir loop over entries from index i;
\* old is what the frame's local buf holds, junk what an unassigned buf holds.
\* Returns rec (TRUE/FALSE), on TRUE the result string and the buf stored
\* into the stat cache, and in tr what the call and the calls below it did.
RECURSIVE fh_rec(_, _, _, _, _)
RECURSIVE rec_loop(_, _, _, _, _, _, _, _)
rec_loop(f, fh, pos, lead, entries, i, old, junk) ==
    IF i > Len(entries) THEN [rec |-> FALSE, tr |-> Trace(0, 0, 0, 0, 1)]
    ELSE LET after(t, r) == [r EXCEPT !.tr = Join(t, @)]
             through(d_name) ==
                 Trace(0, 0, IF d_name \in {<<".">>, <<".", ".">>} THEN 1 ELSE 0,
                       0, 0)
             descended(buf, r) ==
                 IF r.rec THEN after(Trace(0, 0, 0, 0, 1), r)
                 ELSE after(r.tr,
                            rec_loop(f, fh, pos, lead, entries, i + 1, buf, junk))
             statted(d_name, obj, buf) ==
                 IF rec_found(buf, fh)
                 THEN [rec |-> TRUE, result |-> rec_result(lead, d_name),
                       buf |-> buf, tr |-> Trace(0, 0, 0, 0, 1)]
                 ELSE IF rec_descend(d_name, buf, fh, pos)
                 THEN descended(buf, after(through(d_name),
                                           fh_rec(f, fh, pos + 1, obj, junk)))
                 ELSE rec_loop(f, fh, pos, lead, entries, i + 1, buf, junk)
             named(d_name, obj) == statted(d_name, obj, rec_stat(f, obj, old))
             entry(d_name) ==
                 IF strlen(lead) + strlen(d_name) + 1 < NFS_MAXPATHLEN
                 THEN named(d_name, sprintf_s_slash_s(lead, d_name))
                 ELSE rec_loop(f, fh, pos, lead, entries, i + 1, old, junk)
         IN  entry(entries[i])

fh_rec(f, fh, pos, lead, junk) ==
    IF pos = fh.len THEN [rec |-> FALSE, tr |-> Trace(1, pos, 0, 0, 0)]
    ELSE LET after(t, r) == [r EXCEPT !.tr = Join(t, @)]
             opened(search) ==
                 IF ~search.ok THEN [rec |-> FALSE, tr |-> Trace(1, pos, 0, 0, 0)]
                 ELSE after(Trace(1, pos, 0, 1, 0),
                            rec_loop(f, fh, pos, lead, readdir(f, search.node), 1,
                                     junk, junk))
         IN  opened(opendir(f, lead))

\* a resolver without the special case for the root directory
decomp_raw_search_only(f, fh, junk) ==
    LET searched(r) ==
            IF r.rec THEN [result |-> r.result, st_set |-> TRUE, buf |-> r.buf,
                           tr |-> r.tr]
            ELSE [result |-> NULL, st_set |-> FALSE, buf |-> junk, tr |-> r.tr]
    IN  searched(fh_rec(f, fh, 0, <<"/">>, junk))

\* fh_decomp_raw(fh): result is the path or NULL; st_set tells whether the stat
\* cache was written, and buf with what
fh_decomp_raw(f, fh, junk) ==
    IF fh.len = 0 THEN [result |-> <<"/">>, st_set |-> FALSE, buf |-> junk,
                        tr |-> Trace(0, 0, 0, 0, 0)]
    ELSE LET searched(r) ==
                 IF r.rec THEN [result |-> r.result, st_set |-> TRUE, buf |-> r.buf,
                                tr |-> r.tr]
                 ELSE [result |-> NULL, st_set |-> FALSE, buf |-> junk,
                       tr |-> r.tr]
         IN  searched(fh_rec(f, fh, 0, <<"/">>, junk))

(***************************************************************************)
(* fh_cache.c: the path cache.  Slots are indexed 0..CACHE_ENTRIES-1; a    *)
(* cache state c is [cache, max, time].                                    *)
(***************************************************************************)
EmptySlot == [dev |-> 0, ino |-> 0, path |-> <<>>, use |-> 0]

\* the loop of fh_cache_lru from slot i on
RECURSIVE lru_scan(_, _, _, _)
lru_scan(cache, i, best, best_idx) ==
    IF i >= CACHE_ENTRIES THEN best_idx
    ELSE IF cache[i].use = 0 THEN i
    ELSE IF cache[i].use < best THEN lru_scan(cache, i + 1, cache[i].use, i)
    ELSE lru_scan(cache, i + 1, best, best_idx)

\* fh_cache_lru(): the slot to use and fh_cache_max afterwards
fh_cache_lru(c) ==
    IF c.max < CACHE_ENTRIES - 1 THEN [idx |-> c.max, max |-> c.max + 1]
    ELSE [idx |-> lru_scan(c.cache, 0, -1, 0), max |-> c.max]

\* an invalidation that forgets to reset the use stamp
inval_keep_use(cache, idx) ==
    [cache EXCEPT ![idx] = [EmptySlot EXCEPT !.use = cache[idx].use]]

fh_cache_inval(cache, idx) == [cache EXCEPT ![idx] = EmptySlot]

\* the loop of fh_cache_index from slot i on
RECURSIVE index_scan(_, _, _, _)
index_scan(c, dev, ino, i) ==
    IF ~(i < c.max + 1) THEN -1
    ELSE IF c.cache[i].dev = dev /\ c.cache[i].ino = ino THEN i
    ELSE index_scan(c, dev, ino, i + 1)

fh_cache_index(c, dev, ino) == index_scan(c, dev, ino, 0)

fh_cache_add(c, dev, ino, path) ==
    LET chosen(l) ==
            [cache |-> [fh_cache_inval(c.cache, l.idx) EXCEPT ![l.idx] =
                            [dev |-> dev, ino |-> ino, path |-> path,
                             use |-> c.time + 1]],
             max   |-> l.max,
             time  |-> c.time + 1]
        indexed(idx) ==
            chosen(IF idx = -1 THEN fh_cache_lru(c)
                   ELSE [idx |-> idx, max |-> c.max])
    IN  indexed(fh_cache_index(c, dev, ino))

lookup_no_check(f, c, dev, ino, junk) ==
    LET indexed(i) ==
            IF i # -1
            THEN [c |-> [c EXCEPT !.cache[i].use = c.time + 1,
                                  !.time = c.time + 1],
                  result |-> c.cache[i].path, st_set |-> TRUE, buf |-> junk]
            ELSE [c |-> c, result |-> NULL, st_set |-> FALSE, buf |-> junk]
    IN  indexed(fh_cache_index(c, dev, ino))

\* fh_cache_lookup(dev, ino): the cache afterwards, the path or NULL, and
\* whether the stat cache was written, and with what
fh_cache_lookup(f, c, dev, ino, junk) ==
    LET statted(i, st) ==
            IF st.res = -1
            THEN [c |-> [c EXCEPT !.cache = fh_cache_inval(c.cache, i)],
                  result |-> NULL, st_set |-> FALSE, buf |-> junk]
            ELSE IF st.buf.st_dev = dev /\ st.buf.st_ino = ino
            THEN [c |-> [c EXCEPT !.cache[i].use = c.time + 1,
                                  !.time = c.time + 1],
                  result |-> c.cache[i].path, st_set |-> TRUE, buf |-> st.buf]
            ELSE [c |-> [c EXCEPT !.cache = fh_cache_inval(c.cache, i)],
                  result |-> NULL, st_set |-> FALSE, buf |-> junk]
        indexed(i) ==
            IF i # -1 THEN statted(i, lstat(f, c.cache[i].path))
            ELSE [c |-> c, result |-> NULL, st_set |-> FALSE, buf |-> junk]
    IN  indexed(fh_cache_index(c, dev, ino))

\* fh_decomp(fh): the path or NULL, the cache, the counters and the stat cache
\* afterwards; s is the program state on entry
fh_decomp(f, s, nfh, junk) ==
    LET obj == nfh.data_val
        decoded(lk, raw) ==
            IF raw.result # NULL
            THEN [result |-> raw.result,
                  c |-> fh_cache_add(lk.c, obj.dev, obj.ino, raw.result),
                  use |-> s.use + 1, hit |-> s.hit,
                  st_cache_valid |-> IF raw.st_set THEN TRUE
                                     ELSE s.st_cache_valid,
                  st_cache |-> IF raw.st_set THEN raw.buf ELSE s.st_cache]
            ELSE [result |-> NULL, c |-> lk.c,
                  use |-> s.use + 1, hit |-> s.hit,
                  st_cache_valid |-> FALSE, st_cache |-> s.st_cache]
        looked(lk) ==
            IF lk.result = NULL THEN decoded(lk, fh_decomp_raw(f, obj, junk))
            ELSE [result |-> lk.result, c |-> lk.c,
                  use |-> s.use + 1, hit |-> s.hit + 1,
                  st_cache_valid |-> TRUE, st_cache |-> lk.buf]
    IN  IF ~nfh_valid(nfh)
        THEN [result |-> NULL, c |-> s.c, use |-> s.use, hit |-> s.hit,
              st_cache_valid |-> FALSE, st_cache |-> s.st_cache]
        ELSE looked(fh_cache_lookup(f, s.c, obj.dev, obj.ino, junk))

\* a wrapper that caches whatever the encoder returned
comp_add_always(f, c, path, need_dir, junk) ==
    LET encoded(res) ==
            [res |-> res, c |-> fh_cache_add(c, res.dev, res.ino, path)]
    IN  encoded(fh_comp_raw(f, path, need_dir, junk))

\* fh_comp(path, need_dir): the handle and the cache afterwards
fh_comp(f, c, path, need_dir, junk) ==
    LET encoded(res) ==
            [res |-> res,
             c   |-> IF fh_valid(res) THEN fh_cache_add(c, res.dev, res.ino, path)
                     ELSE c]
    IN  encoded(fh_comp_raw(f, path, need_dir, junk))

(***************************************************************************)
(* File systems the runs start from.  The root is inode 2 of device 1.     *)
(***************************************************************************)
\* a chain /a/b/c, one level deeper than a handle of FH_MAXLEN 2 describes
TreeChain ==
    (<<>> :> RootInode) @@ (<<"a">> :> Inode(1, 4, S_IFDIR))
    @@ (<<"a", "b">> :> Inode(1, 5, S_IFDIR))
    @@ (<<"a", "b", "c">> :> Inode(1, 6, S_IFREG))

\* /a (inode 257) and /b (inode 4) have the same hash, and /a is read first
TreeCollide ==
    (<<>> :> RootInode) @@ (<<"a">> :> Inode(1, 257, S_IFDIR))
    @@ (<<"b">> :> Inode(1, 4, S_IFDIR))
    @@ (<<"b", "a">> :> Inode(1, 5, S_IFREG))

\* /a/a and /a/b are two names (hard links) of inode 5
TreeLinks ==
    (<<>> :> RootInode) @@ (<<"a">> :> Inode(1, 4, S_IFDIR))
    @@ (<<"a", "a">> :> Inode(1, 5, S_IFREG))
    @@ (<<"a", "b">> :> Inode(1, 5, S_IFREG))

\* lstat fails on the entry /a/a, which readdir yields before /a/b
TreeNoStat ==
    (<<>> :> RootInode) @@ (<<"a">> :> Inode(1, 4, S_IFDIR))
    @@ (<<"a", "a">> :> NoStat)
    @@ (<<"a", "b">> :> Inode(1, 5, S_IFREG))

\* /b is a mount point: device 2, whose inode 4 is not device 1's inode 4
TreeMount ==
    (<<>> :> RootInode) @@ (<<"a">> :> Inode(1, 4, S_IFREG))
    @@ (<<"b">> :> Inode(2, 2, S_IFDIR))
    @@ (<<"b", "a">> :> Inode(2, 4, S_IFREG))

InitTrees == {TreeChain, TreeCollide, TreeLinks, TreeNoStat, TreeMount}

(***************************************************************************)
(* Inputs of the calls.                                                    *)
(***************************************************************************)
\* what an unassigned local unfs3_fh_t may hold in len and inos
JunkFh == {[len |-> 0, inos |-> <<>>], [len |-> 1, inos |-> <<2>>]}

\* what an unassigned local struct stat may hold
JunkStat == {[st_dev |-> 0, st_ino |-> 0, st_mode |-> 0],
             [st_dev |-> 1, st_ino |-> 7, st_mode |-> S_IFREG]}

\* the unassigned memory a call can observe: fh_comp_raw returns its local fh
\* unassigned only for "/", fh_rec reads its local buf only after a failed lstat
JunkFhFor(path) == IF path = <<"/">> THEN JunkFh ELSE {[len |-> 0, inos |-> <<>>]}

JunkStatFor(f) ==
    IF \E n \in DOMAIN f : ~f[n].lstat_ok THEN JunkStat
    ELSE {[st_dev |-> 0, st_ino |-> 0, st_mode |-> 0]}

\* paths callers pass: every entry of the tree, and one that does not exist
PathInputs(f) == {PathOf(n) : n \in DOMAIN f} \cup {<<"/", "c", "/", "c">>}

\* handles the daemon has issued for the trees above
IssuedHandles ==
    UNION {{fh_comp_raw(t, PathOf(n), 0, j) : n \in DOMAIN t, j \in JunkFh} :
           t \in InitTrees}

\* handles a client made up: zero device and inode with a trail through the
\* directory of inode 4, and a right (dev, ino) with a wrong trail
ForgedHandles ==
    { [dev |-> 0, ino |-> 0, gen |-> 0, len |-> 2, inos |-> <<4, 0>>],
      [dev |-> 1, ino |-> 5, gen |-> 5, len |-> 1, inos |-> <<0>>] }

\* a byte string whose count is not the one its len byte announces
BadLengthNfh ==
    { [data_len |-> FH_MINLEN + 2,
       data_val |-> [dev |-> 1, ino |-> 4, gen |-> 4, len |-> 1, inos |-> <<4>>]] }

NfhInputs == {Wire(h) : h \in IssuedHandles \cup ForgedHandles} \cup BadLengthNfh

(***************************************************************************)
(* State.                                                                  *)
(***************************************************************************)
ZeroStat == [st_dev |-> 0, st_ino |-> 0, st_mode |-> 0]

\* ret: op the call, path/arg/nfh/key its arguments, fh the handle and result the
\* path it returned, ok whether it succeeded; tr is what fh_rec did during an
\* fh_decomp_raw; stale is the path that the cache
\* held for the decoded handle's (dev, ino) on entry when that path no longer
\* named the object, NULL otherwise
NoRet ==
    [op |-> "none", path |-> <<>>, arg |-> 0, nfh |-> Wire(invalid_fh),
     key |-> [dev |-> 0, ino |-> 0, gen |-> 0],
     fh |-> invalid_fh, result |-> NULL, ok |-> FALSE, stale |-> NULL,
     tr |-> Trace(0, 0, 0, 0, 0)]

\* the cache as the operators of fh_cache.c take it
C == [cache |-> fh_cache, max |-> fh_cache_max, time |-> fh_cache_time]

S == [c |-> C, use |-> fh_cache_use, hit |-> fh_cache_hit,
      st_cache_valid |-> st_cache_valid, st_cache |-> st_cache]

InitWith(trees, n) ==
    /\ fs \in trees
    /\ fh_cache = [i \in 0..(CACHE_ENTRIES - 1) |-> EmptySlot]
    /\ fh_cache_max = 0
    /\ fh_cache_use = 0
    /\ fh_cache_hit = 0
    /\ fh_cache_time = 0
    /\ st_cache_valid = FALSE
    /\ st_cache = ZeroStat
    /\ new = [dev |-> 0, ino |-> 0, gen |-> 0, len |-> 0,
              inos |-> [i \in 1..FH_MAXLEN |-> 0]]
    /\ left = n
    /\ muts = 0
    /\ changed = {}
    /\ ret = NoRet

Init == InitWith(InitTrees, MaxCalls)

SetCache(c) ==
    /\ fh_cache' = c.cache
    /\ fh_cache_max' = c.max
    /\ fh_cache_time' = c.time

\* path is q or lies below q
Below(path, q) ==
    /\ Len(path) >= Len(q)
    /\ SubSeq(path, 1, Len(q)) = q
    /\ Len(path) > Len(q) => path[Len(q) + 1] = "/"

\* the path the slot holds was renamed away, removed or replaced, and does not
\* name the slot's (dev, ino)
SlotStale(f, slot) ==
    /\ slot.use > 0
    /\ \E q \in changed : Below(slot.path, q)
    /\ \E st \in {lstat(f, slot.path)} :
          st.res = -1 \/ st.buf.st_dev # slot.dev \/ st.buf.st_ino # slot.ino

\* the stale path the cache holds for (dev, ino), NULL when there is none
StalePathFor(f, cache, dev, ino) ==
    LET held(hit) == IF hit = {} THEN NULL ELSE cache[CHOOSE i \in hit : TRUE].path
    IN  held({i \in DOMAIN cache :
                /\ cache[i].dev = dev /\ cache[i].ino = ino
                /\ SlotStale(f, cache[i])})

(***************************************************************************)
(* Calls of the cache-using wrappers and of fh_extend_type.                *)
(***************************************************************************)
\* fh_comp(path, need_dir)
FhComp ==
    /\ left > 0
    /\ left' = left - 1
    /\ \E path \in PathInputs(fs), need_dir \in {0, 1} :
       \E junk \in JunkFhFor(path) :
       \E r \in {fh_comp(fs, C, path, need_dir, junk)} :
        /\ SetCache(r.c)
        /\ ret' = [NoRet EXCEPT !.op = "fh_comp", !.path = path, !.arg = need_dir,
                                !.fh = r.res, !.ok = fh_valid(r.res)]
    /\ UNCHANGED <<fs, fh_cache_use, fh_cache_hit, st_cache_valid, st_cache,
                   new, muts, changed>>

\* fh_decomp(fh)
FhDecomp ==
    /\ left > 0
    /\ left' = left - 1
    /\ \E nfh \in NfhInputs, junk \in JunkStatFor(fs) :
       \E r \in {fh_decomp(fs, S, nfh, junk)} :
        /\ SetCache(r.c)
        /\ fh_cache_use' = r.use
        /\ fh_cache_hit' = r.hit
        /\ st_cache_valid' = r.st_cache_valid
        /\ st_cache' = r.st_cache
        /\ ret' = [NoRet EXCEPT
                     !.op = "fh_decomp", !.nfh = nfh,
                     !.result = r.result, !.ok = r.result # NULL,
                     !.stale = StalePathFor(fs, fh_cache, nfh.data_val.dev,
                                            nfh.data_val.ino)]
    /\ UNCHANGED <<fs, new, muts, changed>>

\* fh_extend_type(fh, path, type), fh being the handle of path's directory as
\* the caller holds it
FhExtendType ==
    /\ left > 0
    /\ left' = left - 1
    /\ \E n \in DOMAIN fs \ {<<>>}, type \in {0, S_IFDIR} :
       \E junk \in JunkFhFor(PathOf(Parent(n))) :
       \E nfh \in {Wire(fh_comp_raw(fs, PathOf(Parent(n)), 0, junk))} :
       \E r \in {fh_extend_type(fs, new, st_cache, nfh, PathOf(n), type)} :
        /\ nfh_valid(nfh)
        /\ new' = r.post.new
        /\ st_cache_valid' = r.st_cache_valid
        /\ st_cache' = r.st_cache
        /\ ret' = [NoRet EXCEPT !.op = "fh_extend_type", !.path = PathOf(n),
                                !.arg = type, !.nfh = nfh,
                                !.fh = r.post.handle.data_val,
                                !.ok = r.post.handle_follows]
    /\ UNCHANGED <<fs, fh_cache, fh_cache_max, fh_cache_use, fh_cache_hit,
                   fh_cache_time, muts, changed>>

NextStable == FhComp \/ FhDecomp \/ FhExtendType

\* the wrappers on a tree that does not change
SpecStable == Init /\ [][NextStable]_vars

(***************************************************************************)
(* Other processes change the exported tree between two calls.             *)
(***************************************************************************)
\* the nodes at or below n
Subtree(f, n) == {m \in DOMAIN f : Len(m) >= Len(n) /\ SubSeq(m, 1, Len(n)) = n}

\* n as it is called once its ancestor from became to
Moved(n, from, to) == to \o SubSeq(n, Len(from) + 1, Len(n))

\* rename(from, to): the subtree keeps its inodes under the new name
rename(f, from, to) ==
    [m \in (DOMAIN f \ Subtree(f, from)) \cup
           {Moved(k, from, to) : k \in Subtree(f, from)} |->
        IF m \in DOMAIN f \ Subtree(f, from) THEN f[m]
        ELSE f[from \o SubSeq(m, Len(to) + 1, Len(m))]]

\* unlink / rmdir of n and what is below it
remove(f, n) == [m \in DOMAIN f \ Subtree(f, n) |-> f[m]]

\* n is removed and a new regular file is created under the same name, with
\* an inode number (9) that no object of the trees above has
replace(f, n) ==
    [m \in (DOMAIN f \ Subtree(f, n)) \cup {n} |->
        IF m = n THEN Inode(f[Parent(n)].st_dev, 9, S_IFREG) ELSE f[m]]

Rename ==
    /\ muts < MaxMuts
    /\ muts' = muts + 1
    /\ \E n \in DOMAIN fs \ {<<>>} :
       \E to \in {Append(Parent(n), "c")} :
        /\ to \notin DOMAIN fs
        /\ fs' = rename(fs, n, to)
        /\ changed' = changed \cup {PathOf(n)}
        /\ ret' = [NoRet EXCEPT !.op = "rename", !.path = PathOf(n)]
    /\ UNCHANGED <<fh_cache, fh_cache_max, fh_cache_use, fh_cache_hit,
                   fh_cache_time, st_cache_valid, st_cache, new, left>>

Remove ==
    /\ muts < MaxMuts
    /\ muts' = muts + 1
    /\ \E n \in DOMAIN fs \ {<<>>} :
        /\ fs' = remove(fs, n)
        /\ changed' = changed \cup {PathOf(n)}
        /\ ret' = [NoRet EXCEPT !.op = "remove", !.path = PathOf(n)]
    /\ UNCHANGED <<fh_cache, fh_cache_max, fh_cache_use, fh_cache_hit,
                   fh_cache_time, st_cache_valid, st_cache, new, left>>

Replace ==
    /\ muts < MaxMuts
    /\ muts' = muts + 1
    /\ \E n \in DOMAIN fs \ {<<>>} :
        /\ fs[n].lstat_ok
        /\ fs' = replace(fs, n)
        /\ changed' = changed \cup {PathOf(n)}
        /\ ret' = [NoRet EXCEPT !.op = "replace", !.path = PathOf(n)]
    /\ UNCHANGED <<fh_cache, fh_cache_max, fh_cache_use, fh_cache_hit,
                   fh_cache_time, st_cache_valid, st_cache, new, left>>

Next == FhComp \/ FhDecomp \/ FhExtendType \/ Rename \/ Remove \/ Replace

\* the wrappers on a tree that other processes change
Spec == Init /\ [][Next]_vars

NextHeal == FhComp \/ FhDecomp \/ Rename \/ Remove \/ Replace

\* longer runs of fh_comp and fh_decomp on the tree with an entry lstat fails
\* on, changed by other processes
InitHeal == InitWith({TreeNoStat}, MaxHealCalls)

SpecHeal == InitHeal /\ [][NextHeal]_vars

\* short runs of fh_comp and fh_decomp on the trees with hard links and with
\* an entry lstat fails on, changed by other processes
InitFrame == InitWith({TreeLinks, TreeNoStat}, MaxFrameCalls)

SpecFrame == InitFrame /\ [][NextHeal]_vars

(***************************************************************************)
(* The cache functions of fh_cache.c, called directly.                     *)
(***************************************************************************)
\* fh_cache_init()
FhCacheInit ==
    /\ left > 0
    /\ left' = left - 1
    /\ fh_cache' = [i \in 0..(CACHE_ENTRIES - 1) |-> EmptySlot]
    /\ ret' = [NoRet EXCEPT !.op = "fh_cache_init"]
    /\ UNCHANGED <<fs, fh_cache_max, fh_cache_use, fh_cache_hit, fh_cache_time,
                   st_cache_valid, st_cache, new, muts, changed>>

\* fh_cache_add(dev, ino, path) for an object of the tree and its path
FhCacheAdd ==
    /\ left > 0
    /\ left' = left - 1
    /\ \E n \in DOMAIN fs :
        /\ fs[n].lstat_ok
        /\ SetCache(fh_cache_add(C, fs[n].st_dev, fs[n].st_ino, PathOf(n)))
        /\ ret' = [NoRet EXCEPT !.op = "fh_cache_add", !.path = PathOf(n),
                                !.key = [dev |-> fs[n].st_dev, ino |-> fs[n].st_ino,
                                         gen |-> 0]]
    /\ UNCHANGED <<fs, fh_cache_use, fh_cache_hit, st_cache_valid, st_cache,
                   new, muts, changed>>

\* fh_cache_lookup(dev, ino) for an object of the tree, and for (0, 0)
FhCacheLookup ==
    /\ left > 0
    /\ left' = left - 1
    /\ \E k \in {[dev |-> fs[n].st_dev, ino |-> fs[n].st_ino, gen |-> 0] :
                    n \in DOMAIN fs} :
       \E r \in {fh_cache_lookup(fs, C, k.dev, k.ino, ZeroStat)} :
        /\ SetCache(r.c)
        /\ st_cache_valid' = (IF r.st_set THEN TRUE ELSE st_cache_valid)
        /\ st_cache' = (IF r.st_set THEN r.buf ELSE st_cache)
        /\ ret' = [NoRet EXCEPT !.op = "fh_cache_lookup", !.key = k,
                                !.result = r.result, !.ok = r.result # NULL]
    /\ UNCHANGED <<fs, fh_cache_use, fh_cache_hit, new, muts, changed>>

NextCache == FhCacheInit \/ FhCacheAdd \/ FhCacheLookup

InitCache == InitWith(InitTrees, MaxCacheCalls)

SpecCache == InitCache /\ [][NextCache]_vars

NextSlots ==
    FhCacheInit \/ FhCacheAdd \/ FhCacheLookup \/ Rename \/ Remove \/ Replace

InitSlots == InitWith({TreeChain, TreeLinks, TreeNoStat}, MaxCacheCalls)

\* the cache functions called directly while other processes change the
\* tree, so that lookups find paths that no longer name their object
SpecSlots == InitSlots /\ [][NextSlots]_vars

(***************************************************************************)
(* The uncached codec, called directly on a tree that does not change.     *)
(***************************************************************************)
\* handles passed to the uncached decode
FhInputs == IssuedHandles \cup ForgedHandles

\* fh_comp_raw(path, need_dir)
FhCompRaw ==
    /\ \E path \in PathInputs(fs), need_dir \in {0, 1} :
       \E junk \in JunkFhFor(path) :
       \E r \in {fh_comp_raw(fs, path, need_dir, junk)} :
        ret' = [NoRet EXCEPT !.op = "fh_comp_raw", !.path = path,
                             !.arg = need_dir, !.fh = r, !.ok = fh_valid(r)]
    /\ UNCHANGED <<fs, fh_cache, fh_cache_max, fh_cache_use, fh_cache_hit,
                   fh_cache_time, st_cache_valid, st_cache, new, left, muts, changed>>

\* the hashes of the inodes of the first k components of node n
TrailOf(f, n, k) == [i \in 1..k |-> FH_HASH(f[SubSeq(n, 1, i)].st_ino)]

\* the handle of node n as a client would build it from the hashes of n's
\* ancestor directories alone: len is the number of ancestors below the root
AncestorsHandle(f, n) ==
    [dev |-> f[n].st_dev, ino |-> f[n].st_ino, gen |-> get_gen(f[n]),
     len |-> Len(n) - 1, inos |-> TrailOf(f, n, Len(n) - 1)]

\* the handle of node n with one more trail byte after those of its ancestors
FinalByteHandle(f, n, b) ==
    [dev |-> f[n].st_dev, ino |-> f[n].st_ino, gen |-> get_gen(f[n]),
     len |-> Len(n), inos |-> Append(TrailOf(f, n, Len(n) - 1), b)]

\* handles built from a trail of ancestors, without and with a final byte (0,
\* which is the hash of no object of the trees)
TrailHandles ==
    UNION {{AncestorsHandle(t, n) : n \in {m \in DOMAIN t : m # <<>> /\ t[m].lstat_ok}}
           \cup {FinalByteHandle(t, n, 0) :
                    n \in {m \in DOMAIN t : m # <<>> /\ t[m].lstat_ok
                                              /\ Len(m) <= FH_MAXLEN}} :
           t \in InitTrees}

\* handles of no object whose trail bytes are the hashes of the inodes that
\* "." and ".." have in the root (2) and in a directory of inode 4
DotHandles ==
    { [dev |-> 1, ino |-> 9, gen |-> 9, len |-> 2, inos |-> <<2, 2>>],
      [dev |-> 1, ino |-> 9, gen |-> 9, len |-> 2, inos |-> <<4, 4>>] }

\* fh_decomp_raw(fh)
FhDecompRaw ==
    /\ \E fh \in FhInputs \cup TrailHandles \cup DotHandles,
          junk \in JunkStatFor(fs) :
       \E r \in {fh_decomp_raw(fs, fh, junk)} :
        /\ st_cache_valid' = (IF r.st_set THEN TRUE ELSE st_cache_valid)
        /\ st_cache' = (IF r.st_set THEN r.buf ELSE st_cache)
        /\ ret' = [NoRet EXCEPT !.op = "fh_decomp_raw", !.nfh = Wire(fh),
                                !.fh = fh, !.result = r.result,
                                !.ok = r.result # NULL, !.tr = r.tr]
    /\ UNCHANGED <<fs, fh_cache, fh_cache_max, fh_cache_use, fh_cache_hit,
                   fh_cache_time, new, left, muts, changed>>

NextRaw == FhCompRaw \/ FhDecompRaw

SpecRaw == Init /\ [][NextRaw]_vars

(***************************************************************************)
(* Round trip of the uncached codec.                                       *)
(***************************************************************************)
\* the existing non-root paths within FH_MAXLEN components of the root
Encodable(f) ==
    {n \in DOMAIN f : n # <<>> /\ Len(n) <= FH_MAXLEN /\ f[n].lstat_ok}

\* n is the only name of its object
OnlyName(f, n) ==
    \A m \in DOMAIN f :
        (f[m].lstat_ok /\ f[m].st_dev = f[n].st_dev /\ f[m].st_ino = f[n].st_ino)
            => m = n

\* the uncached decode has just returned for the handle that the uncached
\* encode gives for node n
DecodedHandleOf(n) ==
    /\ ret.op = "fh_decomp_raw"
    /\ \E j \in JunkFhFor(PathOf(n)) : ret.fh = fh_comp_raw(fs, PathOf(n), 0, j)

C9_RootIdentity ==
    /\ (ret.op = "fh_comp_raw" /\ ret.path = <<"/">> /\ ret.ok) => ret.fh.len = 0
    /\ (ret.op = "fh_decomp_raw" /\ ret.fh.len = 0) => ret.result = <<"/">>

(***************************************************************************)
(* The pure functions of fh.c, applied to inputs a client can send.        *)
(***************************************************************************)
\* byte strings of every length around FH_MINLEN, with every len byte
ByteStrings ==
    { [data_len |-> n,
       data_val |-> [dev |-> d, ino |-> 4, gen |-> 4, len |-> l,
                     inos |-> [i \in 1..l |-> 4]]] :
      n \in 0..(FH_MINLEN + FH_MAXLEN + 2), l \in 0..(FH_MAXLEN + 1), d \in {0, 1} }

\* nfh_valid(fh)
NfhValid ==
    /\ \E nfh \in ByteStrings :
        ret' = [NoRet EXCEPT !.op = "nfh_valid", !.nfh = nfh, !.ok = nfh_valid(nfh)]
    /\ UNCHANGED <<fs, fh_cache, fh_cache_max, fh_cache_use, fh_cache_hit,
                   fh_cache_time, st_cache_valid, st_cache, new, left, muts, changed>>

\* fh_valid(fh)
FhValid ==
    /\ \E d \in {0, 1, 2}, i \in {0, 4, 257} :
       \E fh \in {[dev |-> d, ino |-> i, gen |-> i, len |-> 0, inos |-> <<>>]} :
        ret' = [NoRet EXCEPT !.op = "fh_valid", !.fh = fh, !.ok = fh_valid(fh)]
    /\ UNCHANGED <<fs, fh_cache, fh_cache_max, fh_cache_use, fh_cache_hit,
                   fh_cache_time, st_cache_valid, st_cache, new, left, muts, changed>>

\* the (dev, ino, gen) of a child, as fh_extend is given them
ChildKeys ==
    { [dev |-> 1, ino |-> 6, gen |-> 6], [dev |-> 1, ino |-> 257, gen |-> 257],
      [dev |-> 2, ino |-> 4, gen |-> 0] }

\* a handle a client made up with one trail byte more than FH_MAXLEN, sent with
\* the byte count its len announces
OverlongHandles ==
    { [dev |-> 1, ino |-> 4, gen |-> 4, len |-> FH_MAXLEN + 1,
       inos |-> [i \in 1..(FH_MAXLEN + 1) |-> 4]] }

\* what fh_extend(nfh, dev, ino, gen) of handle h with the key k of a child
\* returns and leaves in its static new
ExtendCall(h, k) ==
    \E r \in {fh_extend(new, Wire(h), k.dev, k.ino, k.gen)} :
        /\ new' = r.new
        /\ ret' = [NoRet EXCEPT !.op = "fh_extend", !.nfh = Wire(h), !.key = k,
                                !.fh = IF r.ok THEN HandleOf(r.new) ELSE invalid_fh,
                                !.ok = r.ok]

\* fh_extend(nfh, dev, ino, gen)
FhExtend ==
    /\ \E h \in FhInputs, k \in ChildKeys : ExtendCall(h, k)
    /\ UNCHANGED <<fs, fh_cache, fh_cache_max, fh_cache_use, fh_cache_hit,
                   fh_cache_time, st_cache_valid, st_cache, left, muts, changed>>

\* fh_extend of a handle longer than any the daemon issues
FhExtendOverlong ==
    /\ \E h \in OverlongHandles, k \in ChildKeys : ExtendCall(h, k)
    /\ UNCHANGED <<fs, fh_cache, fh_cache_max, fh_cache_use, fh_cache_hit,
                   fh_cache_time, st_cache_valid, st_cache, left, muts, changed>>

NextPure == NfhValid \/ FhValid \/ FhExtend

SpecPure == Init /\ [][NextPure]_vars

NextDepth == FhCompRaw \/ FhExtend \/ FhExtendOverlong

\* the encoder and fh_extend, the two functions that build handles
SpecDepth == Init /\ [][NextDepth]_vars

\* C7: nfh_valid rejects a byte string b if and only if len(b) < 13 or
\* len(b) differs from 13 + b[12]; every other byte string, one with dev = 0
\* included, is accepted.
C7_Validation ==
    ret.op = "nfh_valid" =>
        (~ret.ok <=> (\/ ret.nfh.data_len < 13
                      \/ ret.nfh.data_len # 13 + ret.nfh.data_val.len))

\* a byte string with dev = 0 and a trail has been accepted
C7_Witness ==
    /\ ret.op = "nfh_valid"
    /\ ret.ok
    /\ ret.nfh.data_val.dev = 0
    /\ ret.nfh.data_val.len > 0

C10_Extend ==
    (ret.op = "fh_extend" /\ ret.nfh.data_val.len < FH_MAXLEN) =>
        /\ ret.ok
        /\ ret.fh.len = ret.nfh.data_val.len + 1
        /\ ret.fh.dev = ret.key.dev
        /\ ret.fh.ino = ret.key.ino
        /\ ret.fh.gen = ret.key.gen
        /\ ret.fh.inos[ret.nfh.data_val.len + 1] = FH_HASH(ret.key.ino)
        /\ \A i \in 1..ret.nfh.data_val.len :
              ret.fh.inos[i] = ret.nfh.data_val.inos[i]

\* a handle with a trail has been extended by a child whose inode hashes to
\* another byte than the parent's
C10_Witness ==
    /\ ret.op = "fh_extend"
    /\ ret.ok
    /\ ret.nfh.data_val.len > 0
    /\ ret.nfh.data_val.len < FH_MAXLEN
    /\ FH_HASH(ret.key.ino) # FH_HASH(ret.nfh.data_val.ino)
    /\ ret.fh.len = ret.nfh.data_val.len + 1

(***************************************************************************)
(* The path cache behind fh_comp and fh_decomp.                            *)
(***************************************************************************)
\* path names the object (dev, ino) in f
NamesObject(f, path, dev, ino) ==
    \E st \in {lstat(f, path)} :
        st.res = 0 /\ st.buf.st_dev = dev /\ st.buf.st_ino = ino

\* what the uncached decode returns for fh in f
RawResult(f, fh) == fh_decomp_raw(f, fh, ZeroStat).result

\* fh_decomp has just returned for a handle that passes nfh_valid
Decoded == ret.op = "fh_decomp" /\ nfh_valid(ret.nfh)

\* C2 (as amended): on a tree that does not change, after any calls of
\* fh_comp, fh_decomp and fh_extend_type, fh_decomp(h) of a handle h that
\* passes nfh_valid returns what fh_decomp_raw(h) returns, or else a path that
\* lstat shows to name the object with h's (dev, ino) - another name of the
\* object, or a name of it where the uncached decode finds none.
C2_TransparentUpToObject ==
    Decoded =>
        \/ ret.result = RawResult(fs, ret.nfh.data_val)
        \/ /\ ret.result # NULL
           /\ NamesObject(fs, ret.result, ret.nfh.data_val.dev,
                          ret.nfh.data_val.ino)

\* the one decode of the run was answered from the cache, for a handle with a
\* trail, with the path the uncached decode returns
C2_Witness ==
    /\ Decoded
    /\ fh_cache_use = 1
    /\ fh_cache_hit = 1
    /\ ret.nfh.data_val.len > 0
    /\ ret.result # NULL
    /\ ret.result = RawResult(fs, ret.nfh.data_val)

\* C2 as stated: every fh_decomp(h) returns exactly what fh_decomp_raw(h)
\* returns in the same tree, whatever the cache holds.
C2_TransparentExactly ==
    Decoded => ret.result = RawResult(fs, ret.nfh.data_val)

\* C3: when the path a cache slot holds for (dev, ino) has been renamed,
\* removed or replaced, the next fh_decomp of a handle with that (dev, ino)
\* does not return the stale path and leaves no slot holding it.
C3_SelfHeal ==
    (Decoded /\ ret.stale # NULL) =>
        /\ ret.result # ret.stale
        /\ \A i \in DOMAIN fh_cache :
              ~(/\ fh_cache[i].use > 0
                /\ fh_cache[i].dev = ret.nfh.data_val.dev
                /\ fh_cache[i].ino = ret.nfh.data_val.ino
                /\ fh_cache[i].path = ret.stale)

\* every slot is occupied
Full(cache) == \A i \in DOMAIN cache : cache[i].use > 0

\* some slot holds (dev, ino)
Holds(cache, dev, ino) ==
    \E i \in DOMAIN cache : cache[i].dev = dev /\ cache[i].ino = ino

\* slot i has the smallest use stamp
Oldest(cache, i) == \A j \in DOMAIN cache : cache[i].use <= cache[j].use

\* an fh_cache_add of a (dev, ino) the full cache does not hold overwrites a
\* slot with the smallest use stamp, and no other slot
AddEvictsOldest ==
    (/\ ret'.op = "fh_cache_add"
     /\ left' = left - 1
     /\ Full(fh_cache)
     /\ ~Holds(fh_cache, ret'.key.dev, ret'.key.ino)) =>
        \E i \in DOMAIN fh_cache :
            /\ Oldest(fh_cache, i)
            /\ fh_cache'[i].dev = ret'.key.dev
            /\ fh_cache'[i].ino = ret'.key.ino
            /\ \A j \in DOMAIN fh_cache \ {i} : fh_cache'[j] = fh_cache[j]

\* C4: in every state where all CACHE_ENTRIES slots are occupied, an add of a
\* (dev, ino) that is not in the cache overwrites a slot whose use stamp is
\* the minimum among the occupied slots.
C4_LruEviction == [][AddEvictsOldest]_vars

(***************************************************************************)
(* The stat cache.                                                         *)
(***************************************************************************)
\* one of the three calls that return a handle or a path has just returned
CoreCall == ret.op \in {"fh_comp", "fh_decomp", "fh_extend_type"}

\* C5: whenever fh_comp, fh_decomp or fh_extend_type returns success, the stat
\* cache is valid and holds the stat of the path the call returned (fh_decomp)
\* or was given (fh_comp, fh_extend_type).
C5_AttrOnSuccess ==
    (CoreCall /\ ret.ok) =>
        /\ st_cache_valid
        /\ \E st \in {lstat(fs, IF ret.op = "fh_decomp" THEN ret.result
                               ELSE ret.path)} :
              st.res = 0 /\ st_cache = st.buf

\* C6: whenever fh_comp returns the invalid handle, fh_decomp returns NULL or
\* fh_extend_type returns handle_follows = FALSE, the stat cache is invalid.
C6_AttrOnFailure ==
    (CoreCall /\ ~ret.ok) => ~st_cache_valid

(***************************************************************************)
(* The trail of a handle.                                                  *)
(***************************************************************************)
\* fh_comp_raw has just returned for the path of node n, of a type need_dir
\* allows
EncodedNode(n) ==
    /\ ret.op = "fh_comp_raw"
    /\ ret.path = PathOf(n)
    /\ ret.arg # 0 => S_ISDIR(fs[n].st_mode)

NoShallowerName(f, n) ==
    \A m \in DOMAIN f :
        (f[m].lstat_ok /\ f[m].st_dev = f[n].st_dev /\ f[m].st_ino = f[n].st_ino)
            => Len(m) >= Len(n)

\* fh_decomp_raw has just returned for handle h
DecodedRaw(h) == ret.op = "fh_decomp_raw" /\ ret.fh = h

FailedCall ==
    /\ left' = left - 1
    /\ ret'.op \in {"fh_comp", "fh_decomp"}
    /\ ~ret'.ok

\* slot i held, for the (dev, ino) of the handle being decoded, a path that
\* does not name that object any more, and is empty after the step
StaleSlotCleared(i) ==
    /\ ret'.op = "fh_decomp"
    /\ nfh_valid(ret'.nfh)
    /\ fh_cache[i].dev = ret'.nfh.data_val.dev
    /\ fh_cache[i].ino = ret'.nfh.data_val.ino
    /\ ~NamesObject(fs, fh_cache[i].path, fh_cache[i].dev, fh_cache[i].ino)
    /\ fh_cache'[i] = EmptySlot

\* a failing call writes no path into the cache: each slot is as it was, or
\* was the stale slot of the decoded (dev, ino) and has been cleared
FailedCallWritesNoPath ==
    FailedCall =>
        /\ \A i \in DOMAIN fh_cache :
              fh_cache'[i] = fh_cache[i] \/ StaleSlotCleared(i)
        /\ Cardinality({i \in DOMAIN fh_cache : fh_cache'[i] # fh_cache[i]}) <= 1
        /\ fh_cache_max' = fh_cache_max
        /\ fh_cache_time' = fh_cache_time

\* a failing call leaves every slot exactly as it was
FailedCallKeepsCache == FailedCall => fh_cache' = fh_cache

\* C13 (as amended): a call of fh_comp or fh_decomp that ends in failure
\* stores no (dev, ino, path, use) in any slot; the only slot it can change
\* is the one fh_cache_lookup found for the handle's (dev, ino) with a path
\* that does not name that object, which it clears before the resolver runs.
C13_FailureWritesNoPath == [][FailedCallWritesNoPath]_vars

\* a decode that found a stale path for its (dev, ino) has returned NULL, and
\* no slot holds that (dev, ino) any more
C13_Witness ==
    /\ ret.op = "fh_decomp"
    /\ ~ret.ok
    /\ ret.stale # NULL
    /\ \A i \in DOMAIN fh_cache :
          ~(fh_cache[i].dev = ret.nfh.data_val.dev
            /\ fh_cache[i].ino = ret.nfh.data_val.ino)

\* C13 as stated: a call that ends in failure leaves every cache slot exactly
\* as it was before the call.
C13_FailureKeepsCache == [][FailedCallKeepsCache]_vars

(***************************************************************************)
(* The depth of a handle.                                                  *)
(***************************************************************************)
\* C14: every handle fh_comp_raw returns, and every handle fh_extend returns
\* for a handle that nfh_valid accepted, has len <= FH_MAXLEN; fh_extend of a
\* handle with len = FH_MAXLEN fails; fh_comp_raw of a path with more than
\* FH_MAXLEN components returns the invalid handle.
C14_DepthBound ==
    /\ ret.op = "fh_comp_raw" => ret.fh.len <= FH_MAXLEN
    /\ (ret.op = "fh_extend" /\ nfh_valid(ret.nfh) /\ ret.ok) =>
          ret.fh.len <= FH_MAXLEN
    /\ (ret.op = "fh_extend" /\ ret.nfh.data_val.len = FH_MAXLEN) => ~ret.ok
    /\ (ret.op = "fh_comp_raw" /\ Len(Split(Tail(ret.path))) > FH_MAXLEN) =>
          ret.fh = invalid_fh

(***************************************************************************)
(* The statistics counters.                                                *)
(***************************************************************************)
\* this step is a call of fh_decomp
DecompStep == left' = left - 1 /\ ret'.op = "fh_decomp"

\* the cache holds, for the (dev, ino) of handle fh, a path that names that
\* object: the call can be answered from the cache
Answerable(f, cache, fh) ==
    \E i \in DOMAIN cache :
        /\ cache[i].use > 0
        /\ cache[i].dev = fh.dev
        /\ cache[i].ino = fh.ino
        /\ NamesObject(f, cache[i].path, fh.dev, fh.ino)

\* fh_cache_use grows by 1 exactly for a handle that passes nfh_valid, and
\* fh_cache_hit by 1 exactly when the call is answered from the cache
CountersStep ==
    DecompStep =>
        /\ fh_cache_use' = fh_cache_use + (IF nfh_valid(ret'.nfh) THEN 1 ELSE 0)
        /\ fh_cache_hit' = fh_cache_hit +
              (IF nfh_valid(ret'.nfh) /\ Answerable(fs, fh_cache, ret'.nfh.data_val)
               THEN 1 ELSE 0)
        /\ 0 <= fh_cache_hit' /\ fh_cache_hit' <= fh_cache_use'

\* the one decode made so far, on a cold cache, resolved a non-root handle,
\* and this step decodes the same handle again
SecondDecode ==
    /\ DecompStep
    /\ ret.op = "fh_decomp" /\ ret.ok
    /\ ret.nfh.data_val.len > 0
    /\ fh_cache_use = 1 /\ fh_cache_hit = 0 /\ fh_cache_time = 1
    /\ ret'.nfh = ret.nfh

\* the second decode returns the same path and is a hit
SecondDecodeHits ==
    SecondDecode =>
        /\ ret'.result = ret.result
        /\ fh_cache_use' = 2
        /\ fh_cache_hit' = 1

\* C15: fh_cache_use increases by exactly 1 on every fh_decomp whose handle
\* passes nfh_valid and by 0 otherwise, fh_cache_hit by exactly 1 exactly when
\* the call is answered from the cache, so 0 <= hits <= uses; decoding the
\* same resolvable non-root handle twice from a cold cache on an unchanging
\* tree returns the same path both times and raises uses by 2 and hits by 1.
C15_Counters == [][CountersStep /\ SecondDecodeHits]_vars

(***************************************************************************)
(* The slots of the path cache.                                            *)
(***************************************************************************)
\* the last call wrote a slot: an fh_cache_add, or an fh_cache_lookup that hit
WroteSlot ==
    ret.op = "fh_cache_add" \/ (ret.op = "fh_cache_lookup" /\ ret.ok)

KeysUnique ==
    \A i, j \in DOMAIN fh_cache :
        (/\ i # j
         /\ fh_cache[i].use > 0 /\ fh_cache[j].use > 0
         /\ fh_cache[i].dev = fh_cache[j].dev)
            => fh_cache[i].ino # fh_cache[j].ino

\* fh_cache_index finds, for the key of every occupied slot, an occupied slot
\* with that key
IndexFindsEntries ==
    \A i \in DOMAIN fh_cache :
        fh_cache[i].use > 0 =>
            \E k \in {fh_cache_index(C, fh_cache[i].dev, fh_cache[i].ino)} :
                /\ k # -1
                /\ fh_cache[k].use > 0
                /\ fh_cache[k].dev = fh_cache[i].dev
                /\ fh_cache[k].ino = fh_cache[i].ino

\* an fh_comp whose (dev, ino) is already cached stores the path and a new
\* stamp in the slot of that key and changes no other slot
ReAddOverwrites ==
    (/\ left' = left - 1
     /\ ret'.op = "fh_comp" /\ ret'.ok
     /\ \E i \in DOMAIN fh_cache :
           /\ fh_cache[i].use > 0
           /\ fh_cache[i].dev = ret'.fh.dev /\ fh_cache[i].ino = ret'.fh.ino) =>
        \E i \in DOMAIN fh_cache :
            /\ fh_cache[i].use > 0
            /\ fh_cache[i].dev = ret'.fh.dev /\ fh_cache[i].ino = ret'.fh.ino
            /\ fh_cache'[i] = [dev |-> ret'.fh.dev, ino |-> ret'.fh.ino,
                               path |-> ret'.path, use |-> fh_cache_time + 1]
            /\ \A j \in DOMAIN fh_cache \ {i} : fh_cache'[j] = fh_cache[j]

\* C17: no two occupied cache slots hold the same (dev, ino); an add whose
\* (dev, ino) is already cached overwrites that slot's path and stamp and
\* changes no other slot; and the index search always finds an existing entry
\* for the key.
C17_KeyUniqueness ==
    [](KeysUnique /\ IndexFindsEntries) /\ [][ReAddOverwrites]_vars

(***************************************************************************)
(* Handles with dev = 0 and ino = 0.                                       *)
(***************************************************************************)
\* the step is an fh_decomp of a handle that nfh_valid accepts and that has
\* dev = 0, ino = 0 and len > 0
ZeroHandleDecoded ==
    /\ left' = left - 1
    /\ ret'.op = "fh_decomp"
    /\ nfh_valid(ret'.nfh)
    /\ ret'.nfh.data_val.dev = 0 /\ ret'.nfh.data_val.ino = 0
    /\ ret'.nfh.data_val.len > 0

ZeroHandleUnresolved ==
    ZeroHandleDecoded =>
        /\ ret'.result = NULL
        /\ \A i \in DOMAIN fh_cache :
              fh_cache'[i].use > 0 => fh_cache'[i] = fh_cache[i]
        /\ ~st_cache_valid'

\* C18: fh_decomp of a handle that passes nfh_valid but has dev = 0, ino = 0
\* and len > 0 returns NULL in every filesystem state, adds no cache entry and
\* does not mark st_cache valid.
C18_ZeroHandleUnresolved == [][ZeroHandleUnresolved]_vars

(***************************************************************************)
(* fh_extend against fh_comp_raw.                                          *)
(***************************************************************************)
\* the entries n of the tree whose directory exists less than FH_MAXLEN
\* components below the root
Children(f) ==
    {n \in DOMAIN f \ {<<>>} :
        /\ f[n].lstat_ok
        /\ IsSearchable(f, Parent(n))
        /\ Len(Parent(n)) < FH_MAXLEN}

\* fh_extend(fh, dev, ino, gen) as a caller uses it to name an entry of a
\* directory: fh is the handle fh_comp_raw gave for the directory, and dev,
\* ino and gen are those of the entry
FhExtendChild ==
    /\ \E n \in Children(fs) :
       \E junk \in JunkFhFor(PathOf(Parent(n))) :
       \E nfh \in {Wire(fh_comp_raw(fs, PathOf(Parent(n)), 0, junk))} :
       \E r \in {fh_extend(new, nfh, fs[n].st_dev, fs[n].st_ino, get_gen(fs[n]))} :
        /\ new' = r.new
        /\ ret' = [NoRet EXCEPT !.op = "fh_extend", !.path = PathOf(n),
                                !.nfh = nfh,
                                !.key = [dev |-> fs[n].st_dev, ino |-> fs[n].st_ino,
                                         gen |-> get_gen(fs[n])],
                                !.fh = IF r.ok THEN HandleOf(r.new) ELSE invalid_fh,
                                !.ok = r.ok]
    /\ UNCHANGED <<fs, fh_cache, fh_cache_max, fh_cache_use, fh_cache_hit,
                   fh_cache_time, st_cache_valid, st_cache, left, muts, changed>>

NextExtend == FhCompRaw \/ FhExtendChild

\* directory handles extended to their entries, on a tree that does not change
SpecExtend == Init /\ [][NextExtend]_vars

\* handles a and b agree in dev, ino, gen, len and inos[0..len-1]
SameHandle(a, b) ==
    /\ a.dev = b.dev /\ a.ino = b.ino /\ a.gen = b.gen
    /\ a.len = b.len
    /\ \A i \in 1..a.len : a.inos[i] = b.inos[i]

\* C19: for every existing directory P (the root included) less than
\* FH_MAXLEN components deep and every entry c of P, fh_extend of
\* fh_comp_raw(P) with the dev, ino and gen of P/c succeeds and equals
\* fh_comp_raw(P/c) in dev, ino, gen, len and inos[0..len-1].
C19_ExtendIsEncode ==
    \A n \in Children(fs) :
        (ret.op = "fh_extend" /\ ret.path = PathOf(n)) =>
            /\ ret.ok
            /\ \A j \in JunkFhFor(PathOf(n)) :
                  SameHandle(ret.fh, fh_comp_raw(fs, PathOf(n), 0, j))

(***************************************************************************)
(* The search of the uncached decode.                                      *)
(***************************************************************************)
\* C20: on every tree and for every handle, fh_decomp_raw returns after
\* calling fh_rec at most once per entry of the tree, no call of fh_rec has a
\* pos above the handle's len, no call is made through the entries "." and
\* "..", and every directory opened has been closed when it returns, with a
\* path or with NULL.
C20_SearchBounded ==
    ret.op = "fh_decomp_raw" =>
        /\ ret.tr.calls <= Cardinality(DOMAIN fs)
        /\ ret.tr.deep <= ret.fh.len
        /\ ret.tr.dots = 0
        /\ ret.tr.opened = ret.tr.closed

\* a search has returned NULL after opening the root and a directory whose own
\* inode, which is that of its entry ".", hashes to the next trail byte
C20_Witness ==
    /\ ret.op = "fh_decomp_raw"
    /\ ret.fh \in DotHandles
    /\ ret.result = NULL
    /\ ret.tr.opened = 2 /\ ret.tr.closed = 2
    /\ ret.tr.deep = 1

====
